---- MODULE Spec2Model ----
(***************************************************************************)
(* Model of packages/firestore/src/core/target.ts: the Target value, its   *)
(* structural equality, its memoized canonical id, its debug string and    *)
(* the document-query predicate.                                           *)
(*                                                                         *)
(* Strings are TLC strings, concatenated with \o as the code does with +.  *)
(* A nullable field (T | null) is a sequence of length at most one:        *)
(* Null is <<>>, a present value v is <<v>>.                               *)
(***************************************************************************)
EXTENDS Integers, Sequences, FiniteSets, TLC

VARIABLES
    targets,              \* instance -> the seven readonly fields of Target
    memoizedCanonicalId,  \* instance -> TargetImpl.memoizedCanonicalId
    lastOp,               \* the last completed call and what it returned
    pc,                   \* caller -> position inside canonifyTarget
    canonicalId,          \* caller -> the local `canonicalId` of canonifyTarget
    returned              \* caller -> what its canonifyTarget call returned

vars == <<targets, memoizedCanonicalId, lastOp, pc, canonicalId, returned>>

Null == <<>>
Some(v) == <<v>>
Value(o) == o[1]

-----------------------------------------------------------------------------
(* Bounds of the model *)

MaxConstraints == 2  \* most constraints a target carries (see Constraints)
NumCallers == 2      \* callers interleaving inside canonifyTarget

-----------------------------------------------------------------------------
(* Collaborators (model/path.ts, model/document_key.ts, util/types.ts,     *)
(* core/query.ts): values and their equality / canonical encodings.  Each  *)
(* encoding is the text of the value's parts, unescaped; equal values get  *)
(* equal encodings and unequal values unequal ones.                        *)

RECURSIVE Join(_, _)
Join(strs, sep) ==
    IF Len(strs) = 0 THEN ""
    ELSE IF Len(strs) = 1 THEN strs[1]
    ELSE strs[1] \o sep \o Join(Tail(strs), sep)

\* ResourcePath: an ordered sequence of segments.
canonicalString(path) == Join(path, "/")
pathIsEqual(p, q) ==
    /\ Len(p) = Len(q)
    /\ \A i \in 1..Len(p) : p[i] = q[i]

\* DocumentKey.isDocumentKey: an even number of segments.
isDocumentKey(path) == Len(path) % 2 = 0

isNullOrUndefined(v) == v = Null

\* FieldFilter: field, operator, value.
canonifyFieldFilter(f) == f.field \o f.op \o f.value
stringifyFieldFilter(f) == f.field \o " " \o f.op \o " " \o f.value
filterEquals(f, g) == f.op = g.op /\ f.field = g.field /\ f.value = g.value

\* OrderBy: field and direction.
canonifyOrderBy(o) == o.field \o o.dir
stringifyOrderBy(o) == o.field \o " (" \o o.dir \o ")"
orderByIsEqual(o, p) == o.dir = p.dir /\ o.field = p.field

\* Bound: a position (ordered values) and a before/after marker.  `other`
\* is nullable, as in Bound.isEqual(other: Bound | null).
canonifyBound(b) == (IF b.before THEN "b:" ELSE "a:") \o Join(b.position, ",")
boundIsEqual(b, other) ==
    /\ other # Null
    /\ b.before = Value(other).before
    /\ b.position = Value(other).position

-----------------------------------------------------------------------------
(* Input values *)

\* Two instances: a, the receiver of the method calls, and b, the argument
\* of a.isEqual(b).  canonifyTarget is called on either.
Instances == {"a", "b"}
Callers == 1..NumCallers

DocPath == <<"rooms", "room1">>
CollPath == <<"rooms", "room1", "messages">>
\* A collection whose id holds the characters of a tag.
TagPath == <<"rooms", "room1", "messages|cg:b">>
Paths == {DocPath, CollPath, TagPath}

CollectionGroups == {Null, Some("b")}

\* Two distinct filters on field a; the second compares with the string
\* value "1,a==1".
FilterA == [field |-> "a", op |-> "==", value |-> "1"]
FilterB == [field |-> "a", op |-> "==", value |-> "1,a==1"]
FieldFilters == {FilterA, FilterB}

OrderByA == [field |-> "a", dir |-> "asc"]
OrderBys == {OrderByA}

Limits == {Null, Some(0), Some(10)}

BoundB == [position |-> <<"1">>, before |-> TRUE]
Bounds == {Null, Some(BoundB)}

SeqsUpTo(S, n) == UNION {[1..k -> S] : k \in 0..n}

-----------------------------------------------------------------------------
(* Target, TargetImpl, newTarget *)

\* newTarget / the TargetImpl constructor: the fields are stored as given.
newTarget(path, collectionGroup, orderBy, filters, limit, startAt, endAt) ==
    [path |-> path, collectionGroup |-> collectionGroup, orderBy |-> orderBy,
     filters |-> filters, limit |-> limit, startAt |-> startAt, endAt |-> endAt]

\* The size of a target: one for a path other than the plain collection
\* path, one for each filter and order-by clause, one for each of
\* collectionGroup, limit, startAt and endAt that is present.
Constraints(t) ==
    (IF t.path # CollPath THEN 1 ELSE 0)
    + (IF t.collectionGroup # Null THEN 1 ELSE 0)
    + Len(t.orderBy)
    + Len(t.filters)
    + (IF t.limit # Null THEN 1 ELSE 0)
    + (IF t.startAt # Null THEN 1 ELSE 0)
    + (IF t.endAt # Null THEN 1 ELSE 0)

AllTargets ==
    {newTarget(p, cg, ob, f, l, s, e) :
        p \in Paths, cg \in CollectionGroups,
        ob \in SeqsUpTo(OrderBys, MaxConstraints),
        f \in SeqsUpTo(FieldFilters, MaxConstraints),
        l \in Limits, s \in Bounds, e \in Bounds}

\* The targets the instances are constructed from.
Targets == {t \in AllTargets : Constraints(t) <= MaxConstraints}

\* isEqual without the collectionGroup comparison (lines 77-79 dropped).
isEqualSkipCollectionGroup(this, other) ==
    IF this.limit # other.limit THEN FALSE
    ELSE IF Len(this.orderBy) # Len(other.orderBy) THEN FALSE
    ELSE IF \E i \in 1..Len(this.orderBy) :
                ~orderByIsEqual(this.orderBy[i], other.orderBy[i]) THEN FALSE
    ELSE IF Len(this.filters) # Len(other.filters) THEN FALSE
    ELSE IF \E i \in 1..Len(this.filters) :
                ~filterEquals(this.filters[i], other.filters[i]) THEN FALSE
    ELSE IF ~pathIsEqual(this.path, other.path) THEN FALSE
    ELSE IF (IF this.startAt # Null
                THEN ~boundIsEqual(Value(this.startAt), other.startAt)
                ELSE other.startAt # Null) THEN FALSE
    ELSE IF this.endAt # Null
            THEN boundIsEqual(Value(this.endAt), other.endAt)
            ELSE other.endAt = Null

\* isEqual that looks at other.startAt only when this.startAt is present.
isEqualOneSidedStartAt(this, other) ==
    IF this.limit # other.limit THEN FALSE
    ELSE IF Len(this.orderBy) # Len(other.orderBy) THEN FALSE
    ELSE IF \E i \in 1..Len(this.orderBy) :
                ~orderByIsEqual(this.orderBy[i], other.orderBy[i]) THEN FALSE
    ELSE IF Len(this.filters) # Len(other.filters) THEN FALSE
    ELSE IF \E i \in 1..Len(this.filters) :
                ~filterEquals(this.filters[i], other.filters[i]) THEN FALSE
    ELSE IF this.collectionGroup # other.collectionGroup THEN FALSE
    ELSE IF ~pathIsEqual(this.path, other.path) THEN FALSE
    ELSE IF (IF this.startAt # Null
                THEN ~boundIsEqual(Value(this.startAt), other.startAt)
                ELSE FALSE) THEN FALSE
    ELSE IF this.endAt # Null
            THEN boundIsEqual(Value(this.endAt), other.endAt)
            ELSE other.endAt = Null

\* Target.isEqual
isEqual(this, other) ==
    IF this.limit # other.limit THEN FALSE
    ELSE IF Len(this.orderBy) # Len(other.orderBy) THEN FALSE
    ELSE IF \E i \in 1..Len(this.orderBy) :
                ~orderByIsEqual(this.orderBy[i], other.orderBy[i]) THEN FALSE
    ELSE IF Len(this.filters) # Len(other.filters) THEN FALSE
    ELSE IF \E i \in 1..Len(this.filters) :
                ~filterEquals(this.filters[i], other.filters[i]) THEN FALSE
    ELSE IF this.collectionGroup # other.collectionGroup THEN FALSE
    ELSE IF ~pathIsEqual(this.path, other.path) THEN FALSE
    ELSE IF (IF this.startAt # Null
                THEN ~boundIsEqual(Value(this.startAt), other.startAt)
                ELSE other.startAt # Null) THEN FALSE
    ELSE IF this.endAt # Null
            THEN boundIsEqual(Value(this.endAt), other.endAt)
            ELSE other.endAt = Null

\* isDocumentQuery without the filters.length test.
isDocumentQueryIgnoringFilters(this) ==
    /\ isDocumentKey(this.path)
    /\ this.collectionGroup = Null

\* Target.isDocumentQuery
isDocumentQuery(this) ==
    /\ isDocumentKey(this.path)
    /\ this.collectionGroup = Null
    /\ Len(this.filters) = 0

-----------------------------------------------------------------------------
(* canonifyTarget: the statements that build the local `canonicalId`, in   *)
(* source order.  Each takes the string built so far.                      *)

appendCollectionGroup(id, t) ==
    IF t.collectionGroup # Null
    THEN id \o "|cg:" \o Value(t.collectionGroup)
    ELSE id

\* The '|f:' segment emitted only for a non-empty filter list.
appendFiltersIfAny(id, t) ==
    IF Len(t.filters) > 0
    THEN (id \o "|f:") \o Join([k \in 1..Len(t.filters) |-> canonifyFieldFilter(t.filters[k])], ",")
    ELSE id

appendFilters(id, t) ==
    (id \o "|f:") \o Join([k \in 1..Len(t.filters) |-> canonifyFieldFilter(t.filters[k])], ",")

appendOrderBy(id, t) ==
    (id \o "|ob:") \o Join([k \in 1..Len(t.orderBy) |-> canonifyOrderBy(t.orderBy[k])], ",")

\* The limit tested for truthiness (`if (targetImpl.limit)`): 0 counts as absent.
appendLimitFalsy(id, t) ==
    IF t.limit # Null /\ Value(t.limit) # 0
    THEN (id \o "|l:") \o ToString(Value(t.limit))
    ELSE id

appendLimit(id, t) ==
    IF ~isNullOrUndefined(t.limit)
    THEN (id \o "|l:") \o ToString(Value(t.limit))
    ELSE id

appendStartAt(id, t) ==
    IF t.startAt # Null
    THEN (id \o "|lb:") \o canonifyBound(Value(t.startAt))
    ELSE id

appendEndAt(id, t) ==
    IF t.endAt # Null
    THEN (id \o "|ub:") \o canonifyBound(Value(t.endAt))
    ELSE id

\* The value canonifyTarget computes when the memo is empty.
computeCanonicalId(t) ==
    appendEndAt(appendStartAt(appendLimit(appendOrderBy(appendFilters(
        appendCollectionGroup(canonicalString(t.path), t), t), t), t), t), t)

\* Calls that computation makes to the path / filter / order-by / bound
\* canonicalization collaborators.
canonifyWork(t) ==
    1 + Len(t.filters) + Len(t.orderBy)
      + (IF t.startAt # Null THEN 1 ELSE 0)
      + (IF t.endAt # Null THEN 1 ELSE 0)

\* stringifyTarget
stringifyTarget(t) ==
    LET s0 == canonicalString(t.path)
        s1 == IF t.collectionGroup # Null
              THEN s0 \o " collectionGroup=" \o Value(t.collectionGroup)
              ELSE s0
        s2 == IF Len(t.filters) > 0
              THEN s1 \o ", filters: ["
                      \o Join([k \in 1..Len(t.filters) |-> stringifyFieldFilter(t.filters[k])], ", ") \o "]"
              ELSE s1
        s3 == IF ~isNullOrUndefined(t.limit)
              THEN s2 \o ", limit: " \o ToString(Value(t.limit))
              ELSE s2
        s4 == IF Len(t.orderBy) > 0
              THEN s3 \o ", orderBy: ["
                      \o Join([k \in 1..Len(t.orderBy) |-> stringifyOrderBy(t.orderBy[k])], ", ") \o "]"
              ELSE s3
        s5 == IF t.startAt # Null
              THEN s4 \o ", startAt: " \o canonifyBound(Value(t.startAt))
              ELSE s4
        s6 == IF t.endAt # Null
              THEN s5 \o ", endAt: " \o canonifyBound(Value(t.endAt))
              ELSE s5
    IN  "Target(" \o s6 \o ")"

stringifyWork(t) ==
    1 + Len(t.filters) + Len(t.orderBy)
      + (IF t.startAt # Null THEN 1 ELSE 0)
      + (IF t.endAt # Null THEN 1 ELSE 0)

-----------------------------------------------------------------------------
(* Calls made one at a time, each run to completion *)

NoOp == [op |-> "none", this |-> "a", str |-> "", bool |-> FALSE, work |-> 0]

CallersIdle ==
    /\ pc = [c \in Callers |-> "idle"]
    /\ canonicalId = [c \in Callers |-> ""]
    /\ returned = [c \in Callers |-> Null]

Init ==
    /\ targets \in [Instances -> Targets]
    /\ memoizedCanonicalId = [i \in Instances |-> Null]
    /\ lastOp = NoOp
    /\ CallersIdle

\* canonifyTarget without the `memoizedCanonicalId === null` test: the id is
\* rebuilt and stored on every call.
CanonifyTargetNoMemo(i) ==
    /\ memoizedCanonicalId' =
          [memoizedCanonicalId EXCEPT ![i] = Some(computeCanonicalId(targets[i]))]
    /\ lastOp' = [op |-> "canonifyTarget", this |-> i,
                  str |-> Value(memoizedCanonicalId'[i]), bool |-> FALSE,
                  work |-> canonifyWork(targets[i])]
    /\ UNCHANGED <<targets, pc, canonicalId, returned>>

\* canonifyTarget(target), start to finish.
CanonifyTarget(i) ==
    /\ memoizedCanonicalId' =
          IF memoizedCanonicalId[i] = Null
          THEN [memoizedCanonicalId EXCEPT ![i] = Some(computeCanonicalId(targets[i]))]
          ELSE memoizedCanonicalId
    /\ lastOp' = [op |-> "canonifyTarget", this |-> i,
                  str |-> Value(memoizedCanonicalId'[i]), bool |-> FALSE,
                  work |-> IF memoizedCanonicalId[i] = Null
                           THEN canonifyWork(targets[i]) ELSE 0]
    /\ UNCHANGED <<targets, pc, canonicalId, returned>>

\* isEqual implemented by comparing canonical ids, which fills both memos.
IsEqualForcing(i, j) ==
    /\ memoizedCanonicalId' =
          [k \in Instances |->
              IF k \in {i, j} /\ memoizedCanonicalId[k] = Null
              THEN Some(computeCanonicalId(targets[k]))
              ELSE memoizedCanonicalId[k]]
    /\ lastOp' = [op |-> "isEqual", this |-> i, str |-> "",
                  bool |-> memoizedCanonicalId'[i] = memoizedCanonicalId'[j],
                  work |-> 0]
    /\ UNCHANGED <<targets, pc, canonicalId, returned>>

\* this.isEqual(other)
IsEqual(i, j) ==
    /\ lastOp' = [op |-> "isEqual", this |-> i, str |-> "",
                  bool |-> isEqual(targets[i], targets[j]), work |-> 0]
    /\ UNCHANGED <<targets, memoizedCanonicalId, pc, canonicalId, returned>>

\* this.isDocumentQuery()
IsDocumentQuery(i) ==
    /\ lastOp' = [op |-> "isDocumentQuery", this |-> i, str |-> "",
                  bool |-> isDocumentQuery(targets[i]), work |-> 0]
    /\ UNCHANGED <<targets, memoizedCanonicalId, pc, canonicalId, returned>>

\* stringifyTarget(target)
StringifyTarget(i) ==
    /\ lastOp' = [op |-> "stringifyTarget", this |-> i,
                  str |-> stringifyTarget(targets[i]), bool |-> FALSE,
                  work |-> stringifyWork(targets[i])]
    /\ UNCHANGED <<targets, memoizedCanonicalId, pc, canonicalId, returned>>

Next ==
    \/ \E i \in Instances : CanonifyTarget(i)
    \/ IsEqual("a", "b")
    \/ IsDocumentQuery("a")
    \/ StringifyTarget("a")

Spec == Init /\ [][Next]_vars

-----------------------------------------------------------------------------
(* Several callers inside canonifyTarget(target) for the one instance      *)
(* Shared, one statement at a time.                                        *)

Shared == "a"

InitCallers ==
    /\ \E t \in Targets : targets = [i \in Instances |-> t]
    /\ memoizedCanonicalId = [i \in Instances |-> Null]
    /\ lastOp = NoOp
    /\ CallersIdle

Goto(c, label) == pc' = [pc EXCEPT ![c] = label]
SetLocal(c, id) == canonicalId' = [canonicalId EXCEPT ![c] = id]

\* A caller enters canonifyTarget (again).
Enter(c) ==
    /\ pc[c] \in {"idle", "done"}
    /\ Goto(c, "check")
    /\ SetLocal(c, "")
    /\ returned' = [returned EXCEPT ![c] = Null]
    /\ UNCHANGED <<targets, memoizedCanonicalId, lastOp>>

\* if (targetImpl.memoizedCanonicalId === null)
CheckMemo(c) ==
    /\ pc[c] = "check"
    /\ Goto(c, IF memoizedCanonicalId[Shared] = Null THEN "path" ELSE "return")
    /\ UNCHANGED <<targets, memoizedCanonicalId, lastOp, canonicalId, returned>>

\* The first statement, with the partial id written to the memo slot itself.
StepPathIntoMemo(c) ==
    /\ pc[c] = "path"
    /\ Goto(c, "cg")
    /\ SetLocal(c, canonicalString(targets[Shared].path))
    /\ memoizedCanonicalId' =
          [memoizedCanonicalId EXCEPT ![Shared] = Some(canonicalString(targets[Shared].path))]
    /\ UNCHANGED <<targets, lastOp, returned>>

\* let canonicalId = targetImpl.path.canonicalString();
StepPath(c) ==
    /\ pc[c] = "path"
    /\ Goto(c, "cg")
    /\ SetLocal(c, canonicalString(targets[Shared].path))
    /\ UNCHANGED <<targets, memoizedCanonicalId, lastOp, returned>>

\* if (collectionGroup !== null) canonicalId += '|cg:' + collectionGroup;
StepCollectionGroup(c) ==
    /\ pc[c] = "cg"
    /\ Goto(c, "f")
    /\ SetLocal(c, appendCollectionGroup(canonicalId[c], targets[Shared]))
    /\ UNCHANGED <<targets, memoizedCanonicalId, lastOp, returned>>

\* canonicalId += '|f:'; canonicalId += filters.map(canonifyFieldFilter).join(',');
StepFilters(c) ==
    /\ pc[c] = "f"
    /\ Goto(c, "ob")
    /\ SetLocal(c, appendFilters(canonicalId[c], targets[Shared]))
    /\ UNCHANGED <<targets, memoizedCanonicalId, lastOp, returned>>

\* canonicalId += '|ob:'; canonicalId += orderBy.map(canonifyOrderBy).join(',');
StepOrderBy(c) ==
    /\ pc[c] = "ob"
    /\ Goto(c, "l")
    /\ SetLocal(c, appendOrderBy(canonicalId[c], targets[Shared]))
    /\ UNCHANGED <<targets, memoizedCanonicalId, lastOp, returned>>

\* if (!isNullOrUndefined(limit)) canonicalId += '|l:' + limit;
StepLimit(c) ==
    /\ pc[c] = "l"
    /\ Goto(c, "lb")
    /\ SetLocal(c, appendLimit(canonicalId[c], targets[Shared]))
    /\ UNCHANGED <<targets, memoizedCanonicalId, lastOp, returned>>

\* if (startAt) canonicalId += '|lb:' + canonifyBound(startAt);
StepStartAt(c) ==
    /\ pc[c] = "lb"
    /\ Goto(c, "ub")
    /\ SetLocal(c, appendStartAt(canonicalId[c], targets[Shared]))
    /\ UNCHANGED <<targets, memoizedCanonicalId, lastOp, returned>>

\* if (endAt) canonicalId += '|ub:' + canonifyBound(endAt);
StepEndAt(c) ==
    /\ pc[c] = "ub"
    /\ Goto(c, "store")
    /\ SetLocal(c, appendEndAt(canonicalId[c], targets[Shared]))
    /\ UNCHANGED <<targets, memoizedCanonicalId, lastOp, returned>>

\* targetImpl.memoizedCanonicalId = canonicalId;
Store(c) ==
    /\ pc[c] = "store"
    /\ Goto(c, "return")
    /\ memoizedCanonicalId' = [memoizedCanonicalId EXCEPT ![Shared] = Some(canonicalId[c])]
    /\ UNCHANGED <<targets, lastOp, canonicalId, returned>>

\* return targetImpl.memoizedCanonicalId;
Return(c) ==
    /\ pc[c] = "return"
    /\ Goto(c, "done")
    /\ returned' = [returned EXCEPT ![c] = memoizedCanonicalId[Shared]]
    /\ UNCHANGED <<targets, memoizedCanonicalId, lastOp, canonicalId>>

NextCallers ==
    \/ \E c \in Callers : Enter(c)
    \/ \E c \in Callers : CheckMemo(c)
    \/ \E c \in Callers : StepPath(c)
    \/ \E c \in Callers : StepCollectionGroup(c)
    \/ \E c \in Callers : StepFilters(c)
    \/ \E c \in Callers : StepOrderBy(c)
    \/ \E c \in Callers : StepLimit(c)
    \/ \E c \in Callers : StepStartAt(c)
    \/ \E c \in Callers : StepEndAt(c)
    \/ \E c \in Callers : Store(c)
    \/ \E c \in Callers : Return(c)

SpecCallers == InitCallers /\ [][NextCallers]_vars

-----------------------------------------------------------------------------
(* Properties *)

Memoized(i) == memoizedCanonicalId[i] # Null
Memo(i) == Value(memoizedCanonicalId[i])

\* s contains sub as a substring.
Contains(s, sub) ==
    \E k \in 1..(Len(s) - Len(sub) + 1) : SubSeq(s, k, k + Len(sub) - 1) = sub

\* The documented layout of the canonical id: the path, then the tagged
\* segments in their fixed order, '|f:' and '|ob:' unconditionally.
CanonicalFormat(t) ==
    canonicalString(t.path)
    \o (IF t.collectionGroup = Null THEN "" ELSE "|cg:" \o Value(t.collectionGroup))
    \o "|f:" \o Join([k \in 1..Len(t.filters) |-> canonifyFieldFilter(t.filters[k])], ",")
    \o "|ob:" \o Join([k \in 1..Len(t.orderBy) |-> canonifyOrderBy(t.orderBy[k])], ",")
    \o (IF t.limit = Null THEN "" ELSE "|l:" \o ToString(Value(t.limit)))
    \o (IF t.startAt = Null THEN "" ELSE "|lb:" \o canonifyBound(Value(t.startAt)))
    \o (IF t.endAt = Null THEN "" ELSE "|ub:" \o canonifyBound(Value(t.endAt)))

\* C1: whenever canonifyTarget has returned for two instances a and b with
\* a.isEqual(b), the two canonical strings are the same string.
C1_EqualTargetsSameCanonicalId ==
    (Memoized("a") /\ Memoized("b") /\ isEqual(targets["a"], targets["b"]))
        => Memo("a") = Memo("b")

\* Two equal instances that carry a filter and a collection group have both
\* been canonified and compared.
C1_Witness ==
    /\ Memoized("a") /\ Memoized("b")
    /\ lastOp.op = "isEqual" /\ lastOp.bool
    /\ Len(targets["a"].filters) = 1
    /\ targets["a"].collectionGroup # Null

\* C2: whenever canonifyTarget has returned for two instances a and b with
\* a.isEqual(b) false, the two canonical strings differ.
C2_UnequalTargetsDifferentCanonicalId ==
    (Memoized("a") /\ Memoized("b") /\ ~isEqual(targets["a"], targets["b"]))
        => Memo("a") # Memo("b")

\* C3: once an instance holds a memoized canonical id, no step changes it,
\* and a canonifyTarget call on that instance returns exactly that string
\* and makes no call to a path / filter / order-by / bound canonicalizer.
C3_MemoizationIdempotent ==
    [][\A i \in Instances :
          Memoized(i) =>
            /\ memoizedCanonicalId'[i] = memoizedCanonicalId[i]
            /\ (lastOp'.op = "canonifyTarget" /\ lastOp'.this = i)
                  => (lastOp'.str = Memo(i) /\ lastOp'.work = 0)]_vars

\* A repeated canonifyTarget call has returned, on a target whose first
\* computation called several collaborators.
C3_Witness ==
    /\ lastOp.op = "canonifyTarget"
    /\ lastOp.work = 0
    /\ Len(targets[lastOp.this].filters) = 2

\* C4: isEqual is reflexive, symmetric and transitive: a.isEqual(b) returns
\* true when b has a's fields; it returns what b.isEqual(a) returns; and when
\* it returns true, every target c that b is equal to, a is equal to.
C4_IsEqualEquivalence ==
    lastOp.op = "isEqual" =>
        /\ targets["a"] = targets["b"] => lastOp.bool
        /\ lastOp.bool = isEqual(targets["b"], targets["a"])
        /\ lastOp.bool =>
              \A c \in Targets :
                  isEqual(targets["b"], c) => isEqual(targets["a"], c)

\* isEqual has returned true for two instances that carry a start bound.
C4_Witness ==
    /\ lastOp.op = "isEqual"
    /\ lastOp.bool
    /\ targets["a"].startAt # Null

\* Instance i has a limit and instance j differs from it in nothing but
\* having none.
LimitOnly(i, j) ==
    /\ targets[i].limit # Null
    /\ targets[j] = [targets[i] EXCEPT !.limit = Null]

\* C5: a target with limit 0 and the same target without a limit are not
\* equal and canonicalize differently; the canonical id of a target with a
\* limit holds '|l:' and the limit, and is longer by exactly that segment
\* than the id of the same target without the limit.
C5_LimitZeroIsPresent ==
    /\ \A i \in Instances :
          (Memoized(i) /\ targets[i].limit # Null)
              => Contains(Memo(i), "|l:" \o ToString(Value(targets[i].limit)))
    /\ \A i, j \in Instances :
          LimitOnly(i, j) =>
              /\ ~isEqual(targets[i], targets[j])
              /\ ~isEqual(targets[j], targets[i])
              /\ (Memoized(i) /\ Memoized(j)) =>
                    /\ Memo(i) # Memo(j)
                    /\ Len(Memo(i)) =
                          Len(Memo(j)) + 3 + Len(ToString(Value(targets[i].limit)))

\* Both canonical ids are computed for a target with limit 0 and its twin
\* without a limit.
C5_Witness ==
    /\ targets["a"].limit = Some(0)
    /\ LimitOnly("a", "b")
    /\ Memoized("a") /\ Memoized("b")

\* C6: isDocumentQuery returns true exactly when the path has an even number
\* of segments, collectionGroup is absent and filters is empty; an instance
\* that agrees on path, collectionGroup and filters gets the same answer
\* whatever its orderBy, limit, startAt and endAt.
C6_IsDocumentQuery ==
    lastOp.op = "isDocumentQuery" =>
        LET t == targets[lastOp.this]
        IN  /\ lastOp.bool <=> /\ Len(t.path) % 2 = 0
                               /\ t.collectionGroup = Null
                               /\ t.filters = <<>>
            /\ \A j \in Instances :
                  (targets[j].path = t.path
                     /\ targets[j].collectionGroup = t.collectionGroup
                     /\ targets[j].filters = t.filters)
                      => isDocumentQuery(targets[j]) = lastOp.bool

\* isDocumentQuery has returned true for a target that also has a limit,
\* beside an instance on the same path that has an order-by instead.
C6_Witness ==
    /\ lastOp.op = "isDocumentQuery"
    /\ lastOp.bool
    /\ targets["a"].limit # Null
    /\ targets["b"].path = targets["a"].path
    /\ targets["b"].orderBy # <<>>

\* Instance j is instance i with its two distinct filters swapped.
FiltersSwapped(i, j) ==
    /\ Len(targets[i].filters) = 2
    /\ targets[i].filters[1] # targets[i].filters[2]
    /\ targets[j] = [targets[i] EXCEPT
                        !.filters = <<targets[i].filters[2], targets[i].filters[1]>>]

\* C7: a target with filters [A, B], A # B, is not equal to the same target
\* with filters [B, A], and their canonical ids differ.
C7_FilterOrderSignificant ==
    FiltersSwapped("a", "b") =>
        /\ ~isEqual(targets["a"], targets["b"])
        /\ (Memoized("a") /\ Memoized("b")) => Memo("a") # Memo("b")

\* C8: every canonical id has the documented layout; the target on path
\* rooms/room1/messages with no other field yields
\* 'rooms/room1/messages|f:|ob:' and with limit 10
\* 'rooms/room1/messages|f:|ob:|l:10'.
C8_CanonicalFormat ==
    \A i \in Instances :
        Memoized(i) =>
            /\ Memo(i) = CanonicalFormat(targets[i])
            /\ targets[i] = newTarget(CollPath, Null, <<>>, <<>>, Null, Null, Null)
                  => Memo(i) = "rooms/room1/messages|f:|ob:"
            /\ targets[i] = newTarget(CollPath, Null, <<>>, <<>>, Some(10), Null, Null)
                  => Memo(i) = "rooms/room1/messages|f:|ob:|l:10"

\* Both example targets have been canonified.
C8_Witness ==
    /\ memoizedCanonicalId["a"] = Some("rooms/room1/messages|f:|ob:")
    /\ memoizedCanonicalId["b"] = Some("rooms/room1/messages|f:|ob:|l:10")

\* C9: no step changes a field of a target; a step that is an isEqual,
\* isDocumentQuery or stringifyTarget call leaves every memoizedCanonicalId
\* as it was; and a memoizedCanonicalId changes only in a canonifyTarget call
\* on its own instance.
C9_OnlyCanonifyTouchesMemo ==
    [][/\ targets' = targets
       /\ lastOp'.op \in {"isEqual", "isDocumentQuery", "stringifyTarget"}
             => memoizedCanonicalId' = memoizedCanonicalId
       /\ \A i \in Instances :
             memoizedCanonicalId'[i] # memoizedCanonicalId[i]
                 => (lastOp'.op = "canonifyTarget" /\ lastOp'.this = i)]_vars

\* isEqual has run between an instance that was never canonified and one
\* that was.
C9_Witness ==
    /\ lastOp.op = "isEqual"
    /\ ~Memoized("a")
    /\ Memoized("b")

\* C10: with callers interleaving inside canonifyTarget on one instance, the
\* memo slot holds null or the complete canonical id of the instance's
\* fields, and every caller that has returned returned that id.
C10_RacingCallersAgree ==
    LET final == Some(CanonicalFormat(targets[Shared]))
    IN  /\ memoizedCanonicalId[Shared] \in {Null, final}
        /\ \A c \in Callers : pc[c] = "done" => returned[c] = final

\* One caller is about to store over a memo that another caller, already
\* returned, had filled: the id was computed twice.
C10_Witness ==
    /\ Memoized(Shared)
    /\ \E c, d \in Callers :
          /\ pc[c] = "store"
          /\ pc[d] = "done"
          /\ returned[d] # Null
    /\ targets[Shared].collectionGroup # Null

====
